---- MODULE Spec2Model ----
(***************************************************************************)
(* Model of the Prometheus aggregation core of k8s-gpu-monitoring:         *)
(*   backend/internal/prometheus/client.go         (Query)                 *)
(*   backend/internal/prometheus/gpu_metrics.go    (GetGPUMetrics,         *)
(*                                                  parseGPUMetrics)       *)
(*   unnamed/part_000                              (GetGPUProcesses,       *)
(*                                                  parseGPUProcesses)     *)
(*                                                                         *)
(* Go strings that the code inspects character by character (labels and    *)
(* sample values) are tuples of one-character strings, so that parsing,    *)
(* key formatting and ordering are computed and not assumed.  Strings      *)
(* that are only compared for equality (query names, PromQL expressions)   *)
(* are TLA+ strings.                                                       *)
(***************************************************************************)
EXTENDS Integers, Sequences, FiniteSets, TLC

\* ------------------------------------------------------------------------
\* Bounds of the model
\* ------------------------------------------------------------------------

\* Largest number of series points in one explored response mapping.
MaxPoints == 2

\* Largest number of queries of one call that fail in transport.
MaxFailures == 1

\* ------------------------------------------------------------------------
\* Go values
\* ------------------------------------------------------------------------

\* The nil error of strconv, and the unlocked state of the mutex.
NIL == "nil"

\* A *PrometheusResponse: nil, or a response with its Data.Result points.
NilResponse == [isNil |-> TRUE, Result |-> <<>>]

Response(points) == [isNil |-> FALSE, Result |-> points]

\* An error value on the completion channel: nil, or the error of c.Query
\* wrapped by fmt.Errorf("query %s failed: %w", name, err).  The error is
\* kept by its cause; the name in its message is not kept.
NilError == [cause |-> "nil"]

QueryError(name, cause) == [cause |-> cause]

\* A Go slice: nil, or a (possibly empty) allocated sequence.
NilSlice == [isNil |-> TRUE, elems |-> <<>>]

MakeSlice(s) == [isNil |-> FALSE, elems |-> s]

\* append(slice, x): appending to a nil slice allocates.
Append1(slice, x) == [isNil |-> FALSE, elems |-> Append(slice.elems, x)]

\* Byte value of the characters that occur in the explored strings; Go
\* compares strings byte-wise.
Ord ==
  [c \in {"+", "-", ".", "0", "1", "2", "3", "4", "5", "6", "7", "8", "9",
          ":", "X", "Y", "a", "b", "c", "p", "q", "x"} |->
     CASE c = "+" -> 43 [] c = "-" -> 45 [] c = "." -> 46
       [] c = "0" -> 48 [] c = "1" -> 49 [] c = "2" -> 50 [] c = "3" -> 51
       [] c = "4" -> 52 [] c = "5" -> 53 [] c = "6" -> 54 [] c = "7" -> 55
       [] c = "8" -> 56 [] c = "9" -> 57 [] c = ":" -> 58
       [] c = "X" -> 88 [] c = "Y" -> 89
       [] c = "a" -> 97 [] c = "b" -> 98 [] c = "c" -> 99
       [] c = "p" -> 112 [] c = "q" -> 113 [] c = "x" -> 120]

IsDigit(c) == Ord[c] >= 48 /\ Ord[c] <= 57

DigitVal(c) == Ord[c] - 48

\* Go's s < t on strings: byte-wise lexicographic, a proper prefix is less.
RECURSIVE StrLess(_, _)
StrLess(s, t) ==
  IF t = <<>> THEN FALSE
  ELSE IF s = <<>> THEN TRUE
  ELSE IF Head(s) # Head(t) THEN Ord[Head(s)] < Ord[Head(t)]
  ELSE StrLess(Tail(s), Tail(t))

AllDigits(s) == \A k \in 1..Len(s) : IsDigit(s[k])

\* Value of a string of decimal digits.
RECURSIVE DecVal(_)
DecVal(s) ==
  IF s = <<>> THEN 0
  ELSE 10 * DecVal(SubSeq(s, 1, Len(s) - 1)) + DigitVal(s[Len(s)])

RECURSIVE Pow10(_)
Pow10(n) == IF n = 0 THEN 1 ELSE 10 * Pow10(n - 1)

HasSign(s) == s # <<>> /\ Head(s) \in {"+", "-"}

Unsigned(s) == IF HasSign(s) THEN Tail(s) ELSE s

\* strconv.Atoi: an optional sign followed by at least one decimal digit;
\* a syntax error returns 0 together with the error.
Atoi(s) ==
  LET body == Unsigned(s)
  IN IF body # <<>> /\ AllDigits(body)
     THEN [val |-> (IF HasSign(s) /\ Head(s) = "-" THEN -1 ELSE 1) * DecVal(body),
           err |-> NIL]
     ELSE [val |-> 0, err |-> "syntax"]

\* Position of the first "." of s, or 0.
DotPos(s) ==
  IF \E k \in 1..Len(s) : s[k] = "."
  THEN CHOOSE k \in 1..Len(s) : s[k] = "." /\ \A j \in 1..(k - 1) : s[j] # "."
  ELSE 0

\* strconv.ParseFloat(s, 64) on decimal literals: optional sign, digits with
\* at most one ".", at least one digit.  The float is kept as the exact
\* decimal num/den, which float64 represents up to an error far below the
\* distance to the next integer for the short literals explored here.
ParseFloat(s) ==
  LET body == Unsigned(s)
      dot  == DotPos(body)
      ip   == IF dot = 0 THEN body ELSE SubSeq(body, 1, dot - 1)
      fp   == IF dot = 0 THEN <<>> ELSE SubSeq(body, dot + 1, Len(body))
      sgn  == IF HasSign(s) /\ Head(s) = "-" THEN -1 ELSE 1
  IN IF AllDigits(ip) /\ AllDigits(fp) /\ Len(ip) + Len(fp) > 0
     THEN [err |-> NIL, num |-> sgn * DecVal(ip \o fp), den |-> Pow10(Len(fp))]
     ELSE [err |-> "syntax", num |-> 0, den |-> 1]

\* The zero float64.
ZeroFloat == [num |-> 0, den |-> 1]

\* Go's int(value) on a float64: truncation toward zero.
TruncInt(v) ==
  IF v.num >= 0 THEN v.num \div v.den ELSE -((-v.num) \div v.den)

\* ------------------------------------------------------------------------
\* Prometheus responses (client.go, PrometheusResponse)
\* ------------------------------------------------------------------------

\* A missing map key reads as the empty string: result.Metric["hostname"].
Label(metric, name) == IF name \in DOMAIN metric THEN metric[name] ELSE <<>>

\* Elements of the []interface{} Value array after JSON decoding.
Float64Val == [kind |-> "float64", str |-> <<>>]

StringVal(s) == [kind |-> "string", str |-> s]

\* map[k] = v on a Go map held as a function.
MapPut(m, k, v) == [x \in (DOMAIN m) \cup {k} |-> IF x = k THEN v ELSE m[x]]

EmptyMap == << >>

\* ------------------------------------------------------------------------
\* parseGPUMetrics, one series point (gpu_metrics.go 66-134)
\* ------------------------------------------------------------------------

\* A correlator without the check of the hostname label.
SkipNoHostnameNever(nodeName) == FALSE

\* if nodeName == "" { continue }
SkipNoHostname(nodeName) == nodeName = <<>>

\* Value checks that take a string that is no number for the number 1.
PointValueLenient(result) ==
  IF Len(result.Value) < 2 THEN [ok |-> FALSE, value |-> ZeroFloat]
  ELSE IF result.Value[2].kind # "string" THEN [ok |-> FALSE, value |-> ZeroFloat]
  ELSE LET pf == ParseFloat(result.Value[2].str)
       IN IF pf.err # NIL THEN [ok |-> TRUE, value |-> [num |-> 1, den |-> 1]]
          ELSE [ok |-> TRUE, value |-> [num |-> pf.num, den |-> pf.den]]

\* The three value checks shared by both correlators: the array has two
\* elements, the second is a string, and the string parses as a float.
PointValue(result) ==
  IF Len(result.Value) < 2 THEN [ok |-> FALSE, value |-> ZeroFloat]
  ELSE IF result.Value[2].kind # "string" THEN [ok |-> FALSE, value |-> ZeroFloat]
  ELSE LET pf == ParseFloat(result.Value[2].str)
       IN IF pf.err # NIL THEN [ok |-> FALSE, value |-> ZeroFloat]
          ELSE [ok |-> TRUE, value |-> [num |-> pf.num, den |-> pf.den]]

\* A test that knows only the CPU utilization as a node-scoped metric.
IsNodeMetricCPUOnly(metricType) == metricType = "cpu_utilization"

IsNodeMetric(metricType) ==
  metricType = "cpu_utilization" \/ metricType = "memory_utilization"

ZeroUtil == [cpuUtilization |-> ZeroFloat, memoryUtilization |-> ZeroFloat]

\* Lines 92-98: read the node's entry (zero value when absent), set the
\* field of this metric, store it back.
SetNodeUtil(nodeUtilization, metricType, nodeName, value) ==
  LET util == IF nodeName \in DOMAIN nodeUtilization
              THEN nodeUtilization[nodeName] ELSE ZeroUtil
      upd  == IF metricType = "cpu_utilization"
              THEN [util EXCEPT !.cpuUtilization = value]
              ELSE [util EXCEPT !.memoryUtilization = value]
  IN MapPut(nodeUtilization, nodeName, upd)

\* fmt.Sprintf("%s:%s", nodeName, gpuIndex)
MetricsKey(nodeName, gpuIndex) == nodeName \o <<":">> \o gpuIndex

\* A record that marks a temperature it has not seen with -1.
NewGPUMetricsUnset(nodeName, gpuIndex, gpuName) ==
  [NodeName |-> nodeName, GPUIndex |-> Atoi(gpuIndex).val, GPUName |-> gpuName,
   GPUMemoryFree |-> 0, GPUMemoryUsed |-> 0, GPUMemoryTotal |-> 0,
   GPUUtilization |-> 0, GPUTemperature |-> -1,
   CPUUtilization |-> 0, MemoryUtilization |-> 0]

\* Lines 110-116: the record created on first sight of a key.
NewGPUMetrics(nodeName, gpuIndex, gpuName) ==
  [NodeName |-> nodeName, GPUIndex |-> Atoi(gpuIndex).val, GPUName |-> gpuName,
   GPUMemoryFree |-> 0, GPUMemoryUsed |-> 0, GPUMemoryTotal |-> 0,
   GPUUtilization |-> 0, GPUTemperature |-> 0,
   CPUUtilization |-> 0, MemoryUtilization |-> 0]

\* A switch whose case for the used memory sets the free memory.
SetMetricFieldSwapped(entry, metricType, value) ==
  CASE metricType = "gpu_mem_free"    -> [entry EXCEPT !.GPUMemoryFree = TruncInt(value)]
    [] metricType = "gpu_mem_used"    -> [entry EXCEPT !.GPUMemoryFree = TruncInt(value)]
    [] metricType = "gpu_mem_total"   -> [entry EXCEPT !.GPUMemoryTotal = TruncInt(value)]
    [] metricType = "gpu_utilization" -> [entry EXCEPT !.GPUUtilization = TruncInt(value)]
    [] metricType = "gpu_temperature" -> [entry EXCEPT !.GPUTemperature = TruncInt(value)]
    [] OTHER -> entry

\* Lines 120-131: the switch on the metric type.
SetMetricField(entry, metricType, value) ==
  CASE metricType = "gpu_mem_free"    -> [entry EXCEPT !.GPUMemoryFree = TruncInt(value)]
    [] metricType = "gpu_mem_used"    -> [entry EXCEPT !.GPUMemoryUsed = TruncInt(value)]
    [] metricType = "gpu_mem_total"   -> [entry EXCEPT !.GPUMemoryTotal = TruncInt(value)]
    [] metricType = "gpu_utilization" -> [entry EXCEPT !.GPUUtilization = TruncInt(value)]
    [] metricType = "gpu_temperature" -> [entry EXCEPT !.GPUTemperature = TruncInt(value)]
    [] OTHER -> entry

\* The body of the inner loop for one result; acc holds metricsMap and
\* nodeUtilization.
MetricsPoint(acc, metricType, result) ==
  LET nodeName == Label(result.Metric, "hostname")
      gpuIndex == Label(result.Metric, "gpu_id")
      gpuName  == Label(result.Metric, "gpu_name")
      pv       == PointValue(result)
      key      == MetricsKey(nodeName, gpuIndex)
      entry    == IF key \in DOMAIN acc.metricsMap
                  THEN acc.metricsMap[key]
                  ELSE NewGPUMetrics(nodeName, gpuIndex, gpuName)
  IN IF SkipNoHostname(nodeName) THEN acc
     ELSE IF ~pv.ok THEN acc
     ELSE IF IsNodeMetric(metricType)
       THEN [acc EXCEPT !.nodeUtilization =
                          SetNodeUtil(@, metricType, nodeName, pv.value)]
     ELSE IF gpuIndex = <<>> THEN acc
     ELSE [acc EXCEPT !.metricsMap =
                        MapPut(@, key, SetMetricField(entry, metricType, pv.value))]

\* for _, result := range response.Data.Result
RECURSIVE MetricsPoints(_, _, _)
MetricsPoints(acc, metricType, points) ==
  IF points = <<>> THEN acc
  ELSE MetricsPoints(MetricsPoint(acc, metricType, Head(points)),
                     metricType, Tail(points))

\* One iteration of the outer loop: response.Data.Result of a response.
MetricsResponse(acc, metricType, response) ==
  MetricsPoints(acc, metricType, response.Result)

\* A second pass that copies the two values into each other's field.
ApplyNodeUtilSwapped(entry, nodeUtilization) ==
  IF entry.NodeName \in DOMAIN nodeUtilization
  THEN [entry EXCEPT
          !.CPUUtilization = TruncInt(nodeUtilization[entry.NodeName].memoryUtilization),
          !.MemoryUtilization = TruncInt(nodeUtilization[entry.NodeName].cpuUtilization)]
  ELSE entry

\* Lines 138-145: copy the node's utilization into one record.
ApplyNodeUtil(entry, nodeUtilization) ==
  IF entry.NodeName \in DOMAIN nodeUtilization
  THEN [entry EXCEPT
          !.CPUUtilization = TruncInt(nodeUtilization[entry.NodeName].cpuUtilization),
          !.MemoryUtilization = TruncInt(nodeUtilization[entry.NodeName].memoryUtilization)]
  ELSE entry

\* The injective sequences over a finite set: the orders in which a range
\* over a Go map can visit its keys.
Orders(S) ==
  {o \in [1..Cardinality(S) -> S] : \A a, b \in 1..Cardinality(S) : o[a] = o[b] => a = b}

\* Lines 148-151: var gpuMetrics []models.GPUMetrics, then one append per
\* map entry in the order the range visits them.
RECURSIVE AppendAll(_, _, _)
AppendAll(slice, m, order) ==
  IF order = <<>> THEN slice
  ELSE AppendAll(Append1(slice, m[Head(order)]), m, Tail(order))

MetricsToSlice(metricsMap, order) == AppendAll(NilSlice, metricsMap, order)

\* ------------------------------------------------------------------------
\* parseGPUProcesses, one series point (part_000 56-103)
\* ------------------------------------------------------------------------

\* A check that forgets the pid label.
SkipProcessPointNoPid(nodeName, gpuIndex, pidStr) ==
  nodeName = <<>> \/ gpuIndex = <<>>

\* if nodeName == "" || gpuIndex == "" || pidStr == "" { continue }
SkipProcessPoint(nodeName, gpuIndex, pidStr) ==
  nodeName = <<>> \/ gpuIndex = <<>> \/ pidStr = <<>>

\* A key without the GPU index.
ProcessKeyNoGPU(nodeName, gpuIndex, pidStr) == nodeName \o <<":">> \o pidStr

\* fmt.Sprintf("%s:%s:%s", nodeName, gpuIndex, pidStr)
ProcessKey(nodeName, gpuIndex, pidStr) ==
  nodeName \o <<":">> \o gpuIndex \o <<":">> \o pidStr

\* Lines 69-80: the record created on first sight of a key.
NewGPUProcess(metric) ==
  [NodeName |-> Label(metric, "hostname"),
   GPUIndex |-> Atoi(Label(metric, "gpu_id")).val,
   PID |-> Atoi(Label(metric, "pid")).val,
   ProcessName |-> Label(metric, "process_name"),
   User |-> Label(metric, "user"),
   Command |-> Label(metric, "command"),
   GPUMemory |-> 0]

\* A switch that adds the value to the memory the record already holds.
SetProcessFieldAdd(proc, metricType, value) ==
  IF metricType = "gpu_memory"
  THEN [proc EXCEPT !.GPUMemory = proc.GPUMemory + TruncInt(value)]
  ELSE proc

\* Lines 97-100: the switch on the metric type.
SetProcessField(proc, metricType, value) ==
  IF metricType = "gpu_memory" THEN [proc EXCEPT !.GPUMemory = TruncInt(value)]
  ELSE proc

\* A loop body that stores the record before it looks at the value.
StoreProcessAlways(processMap, key, proc, metricType, pv) ==
  MapPut(processMap, key,
         IF pv.ok THEN [proc EXCEPT !.GPUMemory = TruncInt(pv.value)] ELSE proc)

\* Lines 83-102: the local proc reaches the map only when the value parsed.
StoreProcess(processMap, key, proc, metricType, pv) ==
  IF ~pv.ok THEN processMap
  ELSE MapPut(processMap, key, SetProcessField(proc, metricType, pv.value))

\* A loop body that builds the record from the labels of every point, also
\* when the map already holds one for the key.
ProcessPointRefresh(processMap, metricType, result) ==
  LET nodeName == Label(result.Metric, "hostname")
      gpuIndex == Label(result.Metric, "gpu_id")
      pidStr   == Label(result.Metric, "pid")
      key      == ProcessKey(nodeName, gpuIndex, pidStr)
  IN IF SkipProcessPoint(nodeName, gpuIndex, pidStr) THEN processMap
     ELSE StoreProcess(processMap, key, NewGPUProcess(result.Metric), metricType,
                       PointValue(result))

\* The body of the inner loop for one result.
ProcessPoint(processMap, metricType, result) ==
  LET nodeName == Label(result.Metric, "hostname")
      gpuIndex == Label(result.Metric, "gpu_id")
      pidStr   == Label(result.Metric, "pid")
      key      == ProcessKey(nodeName, gpuIndex, pidStr)
      proc     == IF key \in DOMAIN processMap
                  THEN processMap[key]
                  ELSE NewGPUProcess(result.Metric)
  IN IF SkipProcessPoint(nodeName, gpuIndex, pidStr) THEN processMap
     ELSE StoreProcess(processMap, key, proc, metricType, PointValue(result))

\* if response == nil { continue }; for _, result := range response.Data.Result
RECURSIVE ProcessPoints(_, _, _)
ProcessPoints(processMap, metricType, points) ==
  IF points = <<>> THEN processMap
  ELSE ProcessPoints(ProcessPoint(processMap, metricType, Head(points)),
                     metricType, Tail(points))

\* One iteration of the outer loop, with its nil check.
ProcessResponse(processMap, metricType, response) ==
  IF response.isNil THEN processMap
  ELSE ProcessPoints(processMap, metricType, response.Result)

\* A less function that looks at the pid before the GPU index.
ProcessLessPidFirst(a, b) ==
  IF a.NodeName # b.NodeName THEN StrLess(a.NodeName, b.NodeName)
  ELSE IF a.PID # b.PID THEN a.PID < b.PID
  ELSE a.GPUIndex < b.GPUIndex

\* The less function handed to sort.Slice (lines 115-123).
ProcessLess(a, b) ==
  IF a.NodeName # b.NodeName THEN StrLess(a.NodeName, b.NodeName)
  ELSE IF a.GPUIndex # b.GPUIndex THEN a.GPUIndex < b.GPUIndex
  ELSE a.PID < b.PID

\* sort.Slice(s, less): some permutation of s in which no element is less
\* than an earlier one; the sort is not stable, so elements that compare
\* equal may end in either order.
SortedBy(s, order) ==
  \A a, b \in 1..Len(order) :
     a < b => ~ProcessLess(s[order[b]], s[order[a]])

RECURSIVE Pick(_, _)
Pick(s, order) ==
  IF order = <<>> THEN <<>> ELSE <<s[Head(order)]>> \o Pick(s, Tail(order))

SortSlice(s) == {Pick(s, o) : o \in {p \in Orders(1..Len(s)) : SortedBy(s, p)}}

\* Lines 110-113: make([]models.GPUProcess, 0, len) + one append per entry.
ProcessesToSlice(processMap, order) ==
  AppendAll(MakeSlice(<<>>), processMap, order)

\* ------------------------------------------------------------------------
\* The two calls and the metrics backend
\* ------------------------------------------------------------------------

\* queries of GetGPUMetrics (gpu_metrics.go 16-24): name -> expression.
MetricsQueries ==
  [gpu_mem_free       |-> "gpu_metrics_free_memory",
   gpu_mem_used       |-> "gpu_metrics_used_memory",
   gpu_mem_total      |-> "gpu_metrics_total_memory",
   gpu_utilization    |-> "gpu_metrics_utilization_percent",
   gpu_temperature    |-> "gpu_metrics_temperature",
   cpu_utilization    |-> "gpu_metrics_cpu_utilization",
   memory_utilization |-> "gpu_metrics_memory_utilization"]

\* queries of GetGPUProcesses (part_000 16-18).
ProcessQueries == [gpu_memory |-> "gpu_process_gpu_memory"]

Queries(c) == IF c = "GetGPUMetrics" THEN MetricsQueries ELSE ProcessQueries

Names(c) == DOMAIN Queries(c)

\* Series points of the served data.
GPUPoint(host, gpu, name, v) ==
  [Metric |-> [hostname |-> host, gpu_id |-> gpu, gpu_name |-> name],
   Value |-> <<Float64Val, StringVal(v)>>]

NodePoint(host, v) ==
  [Metric |-> [hostname |-> host], Value |-> <<Float64Val, StringVal(v)>>]

ProcPoint(host, gpu, pid, pname, v) ==
  [Metric |-> [hostname |-> host, gpu_id |-> gpu, pid |-> pid,
               process_name |-> pname, user |-> <<"a">>, command |-> <<"c">>],
   Value |-> <<Float64Val, StringVal(v)>>]

\* The expressions served by the mock server of TestPrometheusClient_GetGPUMetrics
\* and TestPrometheusClient_GetGPUProcesses (gpu_metrics_test.go 481-498 and
\* 959-965), with the data of their first and third cases; every other
\* expression is answered with status 400.
TestBackend ==
  [gpu_metrics_free_memory |->
     <<GPUPoint(<<"a">>, <<"0">>, <<"X">>, <<"8", "1", "9", "2">>)>>,
   gpu_metrics_used_memory |->
     <<GPUPoint(<<"a">>, <<"0">>, <<"X">>, <<"8", "1", "9", "2">>)>>,
   gpu_metrics_total_memory |->
     <<GPUPoint(<<"a">>, <<"0">>, <<"X">>, <<"1", "6", "3", "8", "4">>)>>,
   gpu_metrics_utilization_percent |->
     <<GPUPoint(<<"a">>, <<"0">>, <<"X">>, <<"7", "5">>)>>,
   gpu_metrics_temperature_celsius |->
     <<GPUPoint(<<"a">>, <<"0">>, <<"X">>, <<"6", "5">>)>>,
   gpu_metrics_cpu_utilization |->
     <<NodePoint(<<"a">>, <<"2", "5", ".", "5">>)>>,
   gpu_metrics_memory_utilization |->
     <<NodePoint(<<"a">>, <<"5", "0", ".", "0">>)>>,
   gpu_process_gpu_memory |->
     <<ProcPoint(<<"a">>, <<"0">>, <<"1", "2", "3", "4">>, <<"p">>, <<"3", "0", "7", "2">>),
       ProcPoint(<<"a">>, <<"1">>, <<"1", "2", "3", "4">>, <<"p">>, <<"3", "0", "7", "2">>)>>]

\* A backend that serves the same data under exactly the expressions the two
\* calls issue.
ExporterBackend ==
  [e \in {MetricsQueries[n] : n \in DOMAIN MetricsQueries}
         \cup {ProcessQueries[n] : n \in DOMAIN ProcessQueries} |->
     IF e = "gpu_metrics_temperature"
     THEN TestBackend["gpu_metrics_temperature_celsius"]
     ELSE TestBackend[e]]

Backends == {TestBackend, ExporterBackend}

\* ------------------------------------------------------------------------
\* State
\* ------------------------------------------------------------------------

VARIABLES
  call,            \* "GetGPUMetrics" or "GetGPUProcesses"
  backend,         \* expression -> served points
  ctxDone,         \* the caller's context is cancelled or timed out
  phase,           \* position of the calling goroutine
  pc,              \* position of each query goroutine
  resp,            \* local resp of each query goroutine
  failures,        \* transport failures so far
  mu,              \* holder of the mutex, or NIL
  results,         \* the shared results map
  errors,          \* the buffered completion channel
  i,               \* the collector's loop counter
  visited,         \* metric types the range over results has visited
  metricsMap,      \* parseGPUMetrics: key -> GPUMetrics
  nodeUtilization, \* parseGPUMetrics: node -> utilization
  processMap,      \* parseGPUProcesses: key -> GPUProcess
  ret,             \* what the call returned
  usage            \* the table cell handed to isHighUsage, and its answer

vars == <<call, backend, ctxDone, phase, pc, resp, failures, mu, results,
          errors, i, visited, metricsMap, nodeUtilization, processMap, ret,
          usage>>

taskVars == <<pc, resp, failures, mu, results, errors>>

parseVars == <<visited, metricsMap, nodeUtilization, processMap>>

NoReturn == [returned |-> FALSE, records |-> NilSlice, err |-> NilError]

Return(records, err) == [returned |-> TRUE, records |-> records, err |-> err]

\* No table cell has been handed to isHighUsage.
NoUsage == [called |-> FALSE]

\* len(queries): the capacity of the channel and the bound of the collector.
N == Cardinality(Names(call))

Init ==
  /\ call \in {"GetGPUMetrics", "GetGPUProcesses"}
  /\ backend \in Backends
  /\ ctxDone \in BOOLEAN
  /\ phase = "start"
  /\ pc = [n \in Names(call) |-> "idle"]
  /\ resp = [n \in Names(call) |-> NilResponse]
  /\ failures = 0
  /\ mu = NIL
  /\ results = EmptyMap
  /\ errors = <<>>
  /\ i = 0
  /\ visited = {}
  /\ metricsMap = EmptyMap
  /\ nodeUtilization = EmptyMap
  /\ processMap = EmptyMap
  /\ ret = NoReturn
  /\ usage = NoUsage

\* ------------------------------------------------------------------------
\* Fan-out: the query goroutines (gpu_metrics.go 31-43, part_000 24-36)
\* ------------------------------------------------------------------------

\* The spawning loop: one goroutine per entry of queries, each of which
\* starts by calling c.Query.
Spawn ==
  /\ phase = "start"
  /\ phase' = "collect"
  /\ pc' = [n \in Names(call) |-> "query"]
  /\ UNCHANGED <<usage, call, backend, ctxDone, resp, failures, mu, results,
                 errors, i, ret>>
  /\ UNCHANGED parseVars

\* The caller's context is cancelled or its deadline passes.
Cancel ==
  /\ ~ctxDone
  /\ ctxDone' = TRUE
  /\ UNCHANGED <<usage, call, backend, phase, i, ret>>
  /\ UNCHANGED taskVars
  /\ UNCHANGED parseVars

\* A Query that builds its request without the context and so never fails
\* on a done context.
QueryOutcomesNoContext(expr, done, canFail) ==
  (IF canFail THEN {[resp |-> NilResponse, err |-> "transport"]} ELSE {})
  \cup (IF expr \in DOMAIN backend
        THEN {[resp |-> Response(backend[expr]), err |-> "nil"]}
        ELSE {[resp |-> NilResponse, err |-> "status"]})

\* The outcomes of c.Query (client.go 46-83) for one expression: the
\* request fails on a done context; the transport may fail; a status other
\* than 200 is an error; otherwise the decoded response is returned.
QueryOutcomes(expr, done, canFail) ==
  IF done THEN {[resp |-> NilResponse, err |-> "context"]}
  ELSE (IF canFail THEN {[resp |-> NilResponse, err |-> "transport"]} ELSE {})
       \cup (IF expr \in DOMAIN backend
             THEN {[resp |-> Response(backend[expr]), err |-> "nil"]}
             ELSE {[resp |-> NilResponse, err |-> "status"]})

\* A completion channel without a buffer: a send waits for the receiver.
CanSendUnbuffered == Len(errors) < 1

\* A send on the buffered channel blocks while the buffer is full.
CanSend == Len(errors) < N

\* resp, err := c.Query(ctx, query) returns an error, which the goroutine
\* wraps and sends before it returns (lines 33-37).  The steps between the
\* return of Query and the send touch only locals of the goroutine.
QueryFail(n) ==
  /\ pc[n] = "query"
  /\ CanSend
  /\ \E out \in QueryOutcomes(Queries(call)[n], ctxDone, failures < MaxFailures) :
       /\ out.err # "nil"
       /\ errors' = Append(errors, QueryError(n, out.err))
       /\ failures' = IF out.err = "transport" THEN failures + 1 ELSE failures
  /\ pc' = [pc EXCEPT ![n] = "done"]
  /\ UNCHANGED <<usage, call, backend, ctxDone, phase, resp, mu, results, i, ret>>
  /\ UNCHANGED parseVars

\* c.Query returns a response; the goroutine goes on to mu.Lock().
QueryOK(n) ==
  /\ pc[n] = "query"
  /\ \E out \in QueryOutcomes(Queries(call)[n], ctxDone, failures < MaxFailures) :
       /\ out.err = "nil"
       /\ resp' = [resp EXCEPT ![n] = out.resp]
  /\ pc' = [pc EXCEPT ![n] = "lock"]
  /\ UNCHANGED <<usage, call, backend, ctxDone, phase, failures, mu, results, errors,
                 i, ret>>
  /\ UNCHANGED parseVars

\* A goroutine that goes on to the write without taking the mutex.
LockNoWait(n) ==
  /\ pc[n] = "lock"
  /\ mu' = n
  /\ pc' = [pc EXCEPT ![n] = "locked"]
  /\ UNCHANGED <<usage, call, backend, ctxDone, phase, resp, failures, results,
                 errors, i, ret>>
  /\ UNCHANGED parseVars

\* mu.Lock() (line 38) returns once the mutex is free.
Lock(n) ==
  /\ pc[n] = "lock"
  /\ mu = NIL
  /\ mu' = n
  /\ pc' = [pc EXCEPT ![n] = "locked"]
  /\ UNCHANGED <<usage, call, backend, ctxDone, phase, resp, failures, results,
                 errors, i, ret>>
  /\ UNCHANGED parseVars

\* A goroutine that stores its response and sends its outcome without
\* releasing the mutex.
WriteResultNoUnlock(n) ==
  /\ pc[n] = "locked"
  /\ CanSend
  /\ results' = MapPut(results, n, resp[n])
  /\ mu' = mu
  /\ errors' = Append(errors, NilError)
  /\ pc' = [pc EXCEPT ![n] = "done"]
  /\ UNCHANGED <<usage, call, backend, ctxDone, phase, resp, failures, i, ret>>
  /\ UNCHANGED parseVars

\* results[name] = resp; mu.Unlock(); errors <- nil (lines 39-41): the rest
\* of the goroutine, run by the holder of the mutex.
WriteResult(n) ==
  /\ pc[n] = "locked"
  /\ CanSend
  /\ results' = MapPut(results, n, resp[n])
  /\ mu' = NIL
  /\ errors' = Append(errors, NilError)
  /\ pc' = [pc EXCEPT ![n] = "done"]
  /\ UNCHANGED <<usage, call, backend, ctxDone, phase, resp, failures, i, ret>>
  /\ UNCHANGED parseVars

\* ------------------------------------------------------------------------
\* Fan-in: the collector loop (gpu_metrics.go 46-52, part_000 38-44)
\* ------------------------------------------------------------------------

\* A collector that takes every outcome for a success.
IsFailureNever(err) == FALSE

\* if err := <-errors; err != nil { return nil, err }
IsFailure(err) == err # NilError

\* A collector whose loop runs to len(queries)-1.
CollectOneShort ==
  /\ phase = "collect"
  /\ i < N
  /\ errors # <<>>
  /\ errors' = Tail(errors)
  /\ IF IsFailure(Head(errors))
     THEN /\ ret' = Return(NilSlice, Head(errors))
          /\ phase' = "returned"
          /\ i' = i
     ELSE /\ ret' = ret
          /\ i' = i + 1
          /\ phase' = IF i + 2 < N THEN "collect" ELSE "parse"
  /\ UNCHANGED <<usage, call, backend, ctxDone, pc, resp, failures, mu, results>>
  /\ UNCHANGED parseVars

\* A collector that waits for every goroutine to finish before it receives
\* an outcome, as a sync.WaitGroup in front of the loop would.
CollectWaitAll ==
  /\ phase = "collect"
  /\ i < N
  /\ \A n \in Names(call) : pc[n] = "done"
  /\ errors # <<>>
  /\ errors' = Tail(errors)
  /\ IF IsFailure(Head(errors))
     THEN /\ ret' = Return(NilSlice, Head(errors))
          /\ phase' = "returned"
          /\ i' = i
     ELSE /\ ret' = ret
          /\ i' = i + 1
          /\ phase' = IF i + 1 < N THEN "collect" ELSE "parse"
  /\ UNCHANGED <<usage, call, backend, ctxDone, pc, resp, failures, mu, results>>
  /\ UNCHANGED parseVars

\* One iteration: receive an outcome; return on an error, otherwise count
\* it, and leave the loop for the correlator after len(queries) of them.
Collect ==
  /\ phase = "collect"
  /\ i < N
  /\ errors # <<>>
  /\ errors' = Tail(errors)
  /\ IF IsFailure(Head(errors))
     THEN /\ ret' = Return(NilSlice, Head(errors))
          /\ phase' = "returned"
          /\ i' = i
     ELSE /\ ret' = ret
          /\ i' = i + 1
          /\ phase' = IF i + 1 < N THEN "collect" ELSE "parse"
  /\ UNCHANGED <<usage, call, backend, ctxDone, pc, resp, failures, mu, results>>
  /\ UNCHANGED parseVars

\* ------------------------------------------------------------------------
\* parseGPUMetrics and parseGPUProcesses as the tail of the two calls
\* ------------------------------------------------------------------------

\* The entries of results the range has still to visit.  Visiting an entry
\* with no result points executes no statement of the loop body, so the
\* position of the range is kept over the entries that have points; these
\* are visited in any order, as a range over a Go map does.
Pending ==
  {m \in DOMAIN results : m \notin visited /\ results[m].Result # <<>>}

\* gpu_metrics.go 65-135: one iteration of the outer loop.
RangeMetrics(m) ==
  /\ phase = "parse"
  /\ call = "GetGPUMetrics"
  /\ m \in Pending
  /\ LET acc == MetricsResponse([metricsMap |-> metricsMap,
                                 nodeUtilization |-> nodeUtilization],
                                m, results[m])
     IN /\ metricsMap' = acc.metricsMap
        /\ nodeUtilization' = acc.nodeUtilization
  /\ visited' = visited \cup {m}
  /\ UNCHANGED <<usage, call, backend, ctxDone, phase, i, processMap, ret>>
  /\ UNCHANGED taskVars

\* gpu_metrics.go 137-145: the second pass over metricsMap.
ApplyNodeUtilization ==
  /\ phase = "parse"
  /\ call = "GetGPUMetrics"
  /\ Pending = {}
  /\ metricsMap' = [k \in DOMAIN metricsMap |->
                      ApplyNodeUtil(metricsMap[k], nodeUtilization)]
  /\ phase' = "emit"
  /\ UNCHANGED <<usage, call, backend, ctxDone, i, visited, nodeUtilization,
                 processMap, ret>>
  /\ UNCHANGED taskVars

\* gpu_metrics.go 147-153: convert to a slice and return it with a nil error.
ReturnMetrics ==
  /\ phase = "emit"
  /\ \E order \in Orders(DOMAIN metricsMap) :
       ret' = Return(MetricsToSlice(metricsMap, order), NilError)
  /\ phase' = "returned"
  /\ UNCHANGED <<usage, call, backend, ctxDone, i>>
  /\ UNCHANGED taskVars
  /\ UNCHANGED parseVars

\* part_000 51-104: one iteration of the outer loop.
RangeProcesses(m) ==
  /\ phase = "parse"
  /\ call = "GetGPUProcesses"
  /\ m \in Pending
  /\ processMap' = ProcessResponse(processMap, m, results[m])
  /\ visited' = visited \cup {m}
  /\ UNCHANGED <<usage, call, backend, ctxDone, phase, i, metricsMap, nodeUtilization, ret>>
  /\ UNCHANGED taskVars

\* A correlator that declares its slice with var, as parseGPUMetrics does.
EmptyProcessesNil == NilSlice

\* part_000 106-108: return []models.GPUProcess{}, nil
EmptyProcesses == MakeSlice(<<>>)

\* part_000 106-125: the slices parseGPUProcesses can return for a map.
ProcessesResults(pm) ==
  IF Cardinality(DOMAIN pm) = 0 THEN {EmptyProcesses}
  ELSE {MakeSlice(sorted) :
          sorted \in UNION {SortSlice(ProcessesToSlice(pm, o).elems) :
                              o \in Orders(DOMAIN pm)}}

ReturnProcesses ==
  /\ phase = "parse"
  /\ call = "GetGPUProcesses"
  /\ Pending = {}
  /\ \E processes \in ProcessesResults(processMap) :
       ret' = Return(processes, NilError)
  /\ phase' = "returned"
  /\ UNCHANGED <<usage, call, backend, ctxDone, i>>
  /\ UNCHANGED taskVars
  /\ UNCHANGED parseVars

\* ------------------------------------------------------------------------
\* Specifications
\* ------------------------------------------------------------------------

\* parseGPUMetrics
CorrelateMetrics ==
  \/ \E m \in DOMAIN results : RangeMetrics(m)
  \/ ApplyNodeUtilization
  \/ ReturnMetrics

\* parseGPUProcesses
CorrelateProcesses ==
  \/ \E m \in DOMAIN results : RangeProcesses(m)
  \/ ReturnProcesses

Correlate == CorrelateMetrics \/ CorrelateProcesses

Next ==
  \/ Spawn
  \/ \E n \in Names(call) : QueryFail(n)
  \/ \E n \in Names(call) : QueryOK(n)
  \/ \E n \in Names(call) : Lock(n)
  \/ \E n \in Names(call) : WriteResult(n)
  \/ Collect
  \/ Correlate

\* One call of GetGPUMetrics or GetGPUProcesses against a backend, under a
\* context that is cancelled before the call or not at all.
Spec == Init /\ [][Next]_vars

\* The same call when only the calling goroutine is sure to run: the
\* collector receives whenever an outcome waits in the channel, while every
\* query goroutine may stay in its query for ever.
SpecCollector == Init /\ [][Next]_vars /\ WF_vars(Collect)

\* The same call under fair scheduling: a step that can be taken is taken in
\* the end, so every call of Query returns, every goroutine that can run
\* runs, and the collector receives what waits in the channel.
SpecFair == Init /\ [][Next]_vars /\ WF_vars(Next)

\* The same call under a context that may be cancelled at any moment.
SpecCancel == Init /\ [][Next \/ Cancel]_vars

\* ------------------------------------------------------------------------
\* The correlators on bounded response mappings
\* ------------------------------------------------------------------------

A == <<"a">>

B == <<"b">>

\* Value arrays: a parseable integer, a parseable decimal, a negative
\* decimal, a string that is no number, an array of one element, and a
\* second element that is no string.
GoodValue == <<Float64Val, StringVal(<<"8">>)>>

OtherValue == <<Float64Val, StringVal(<<"2", ".", "5">>)>>

NegValue == <<Float64Val, StringVal(<<"-", "1", ".", "5">>)>>

BadValues ==
  {<<Float64Val, StringVal(<<"x">>)>>, <<Float64Val>>, <<Float64Val, Float64Val>>}

\* Points of the GPU metric series.
MetricPoints ==
  {[Metric |-> [hostname |-> h, gpu_id |-> g, gpu_name |-> <<"X">>], Value |-> GoodValue] :
     h \in {A, B}, g \in {<<"0">>, <<"1">>}}
  \cup {[Metric |-> [hostname |-> A, gpu_id |-> <<"0">>, gpu_name |-> <<"Y">>], Value |-> v] :
          v \in {OtherValue, NegValue} \cup BadValues}
  \cup {[Metric |-> [hostname |-> <<>>, gpu_id |-> <<"0">>, gpu_name |-> <<"X">>],
         Value |-> GoodValue],
        [Metric |-> [gpu_id |-> <<"0">>, gpu_name |-> <<"X">>], Value |-> OtherValue],
        [Metric |-> [hostname |-> A], Value |-> OtherValue]}

\* Points of the process memory series.
ProcessPointSet ==
  {[Metric |-> [hostname |-> h, gpu_id |-> g, pid |-> p, process_name |-> <<"p">>,
                user |-> <<"a">>, command |-> <<"c">>],
    Value |-> GoodValue] :
     h \in {A, B}, g \in {<<"0">>, <<"1">>}, p \in {<<"7">>, <<"1", "2">>}}
  \cup {[Metric |-> [hostname |-> A, gpu_id |-> <<"0">>, pid |-> <<"7">>,
                     process_name |-> <<"q">>, user |-> <<"b">>, command |-> <<"x">>],
         Value |-> v] : v \in {OtherValue} \cup BadValues}
  \cup {[Metric |-> [hostname |-> <<>>, gpu_id |-> <<"0">>, pid |-> <<"7">>,
                     process_name |-> <<"p">>],
         Value |-> GoodValue],
        [Metric |-> [gpu_id |-> <<"0">>, pid |-> <<"7">>, process_name |-> <<"p">>],
         Value |-> GoodValue],
        [Metric |-> [hostname |-> A, pid |-> <<"7">>, process_name |-> <<"p">>],
         Value |-> GoodValue],
        [Metric |-> [hostname |-> A, gpu_id |-> <<"0">>, process_name |-> <<"p">>],
         Value |-> GoodValue],
        [Metric |-> [hostname |-> A, gpu_id |-> <<"0">>, pid |-> <<>>,
                     process_name |-> <<"p">>],
         Value |-> OtherValue]}

PointsOf(c) == IF c = "GetGPUMetrics" THEN MetricPoints ELSE ProcessPointSet

\* The points that a sequence of (name, point) pairs gives to one name.
RECURSIVE PointsFor(_, _)
PointsFor(pairs, n) ==
  IF pairs = <<>> THEN <<>>
  ELSE (IF Head(pairs)[1] = n THEN <<Head(pairs)[2]>> ELSE <<>>)
       \o PointsFor(Tail(pairs), n)

\* The response mappings of call c with at most MaxPoints points in all:
\* one response for every name of queries, as the collector leaves them.
Inputs(c) ==
  {[n \in Names(c) |-> Response(PointsFor(pairs, n))] :
     pairs \in UNION {[1..k -> Names(c) \X PointsOf(c)] : k \in 0..MaxPoints}}

\* A backend that serves the responses of a mapping.
BackendOf(c, res) ==
  [e \in {Queries(c)[n] : n \in Names(c)} |->
     res[CHOOSE n \in Names(c) : Queries(c)[n] = e].Result]

\* The state in which the collector has received len(queries) nil outcomes
\* and calls the correlator on res.
AtCorrelator(c, res) ==
  /\ call = c
  /\ results = res
  /\ backend = BackendOf(c, res)
  /\ ctxDone = FALSE
  /\ phase = "parse"
  /\ pc = [n \in Names(c) |-> "done"]
  /\ resp = res
  /\ failures = 0
  /\ mu = NIL
  /\ errors = <<>>
  /\ i = Cardinality(Names(c))
  /\ visited = {}
  /\ metricsMap = EmptyMap
  /\ nodeUtilization = EmptyMap
  /\ processMap = EmptyMap
  /\ ret = NoReturn
  /\ usage = NoUsage

InitParse ==
  \E c \in {"GetGPUMetrics", "GetGPUProcesses"} :
    \E res \in Inputs(c) : AtCorrelator(c, res)

\* parseGPUMetrics and parseGPUProcesses on every bounded response mapping.
SpecParse == InitParse /\ [][Correlate]_vars

\* The full join: every one of the seven metrics has one parseable point
\* for one (hostname, gpu_id), each with a value of its own.
JoinValues == {<<"8", "1", "9", "2">>, <<"2", "5", ".", "5">>}

FullJoinInputs ==
  {[n \in Names("GetGPUMetrics") |->
      Response(<<IF IsNodeMetric(n)
                 THEN NodePoint(h, v[n])
                 ELSE GPUPoint(h, g, <<"X">>, v[n])>>)] :
     h \in {A, B}, g \in {<<"0">>, <<"1">>},
     v \in [Names("GetGPUMetrics") -> JoinValues]}

InitFullJoin == \E res \in FullJoinInputs : AtCorrelator("GetGPUMetrics", res)

\* parseGPUMetrics on the full joins.
SpecFullJoin == InitFullJoin /\ [][CorrelateMetrics]_vars

\* A backend that answers every expression with status 200 and serves
\* malformed points among well-formed ones: values that are no number, value
\* arrays of one element, and missing hostname, gpu_id and pid labels.
MalformedBackend ==
  [gpu_metrics_free_memory |->
     <<GPUPoint(A, <<"0">>, <<"X">>, <<"8">>),
       GPUPoint(A, <<"1">>, <<"X">>, <<"x">>)>>,
   gpu_metrics_used_memory |->
     <<GPUPoint(A, <<"1">>, <<"X">>, <<"2", ".", "5">>),
       [Metric |-> [gpu_id |-> <<"0">>, gpu_name |-> <<"X">>], Value |-> GoodValue]>>,
   gpu_metrics_total_memory |->
     <<[Metric |-> [hostname |-> A, gpu_id |-> <<"0">>, gpu_name |-> <<"X">>],
        Value |-> <<Float64Val>>]>>,
   gpu_metrics_utilization_percent |->
     <<[Metric |-> [hostname |-> A, gpu_name |-> <<"X">>], Value |-> GoodValue]>>,
   gpu_metrics_temperature |->
     <<GPUPoint(A, <<"0">>, <<"X">>, <<"x">>)>>,
   gpu_metrics_cpu_utilization |->
     <<NodePoint(A, <<"x">>)>>,
   gpu_metrics_memory_utilization |->
     <<NodePoint(A, <<"2", ".", "5">>)>>,
   gpu_process_gpu_memory |->
     <<ProcPoint(A, <<"0">>, <<"7">>, <<"p">>, <<"x">>),
       [Metric |-> [hostname |-> A, gpu_id |-> <<"0">>, process_name |-> <<"p">>],
        Value |-> GoodValue],
       ProcPoint(A, <<"1">>, <<"7">>, <<"p">>, <<"8">>)>>]

\* A call against the malformed backend, or a correlator entered on a
\* bounded response mapping.
InitMalformed ==
  \/ InitParse
  \/ /\ call \in {"GetGPUMetrics", "GetGPUProcesses"}
     /\ backend = MalformedBackend
     /\ ctxDone \in BOOLEAN
     /\ phase = "start"
     /\ pc = [n \in Names(call) |-> "idle"]
     /\ resp = [n \in Names(call) |-> NilResponse]
     /\ failures = 0
     /\ mu = NIL
     /\ results = EmptyMap
     /\ errors = <<>>
     /\ i = 0
     /\ visited = {}
     /\ metricsMap = EmptyMap
     /\ nodeUtilization = EmptyMap
     /\ processMap = EmptyMap
     /\ ret = NoReturn
     /\ usage = NoUsage

\* The two calls where malformed points occur.
SpecMalformed == InitMalformed /\ [][Next]_vars

\* Labels that are no canonical decimal integer: a string that strconv.Atoi
\* rejects, and two that it accepts but that do not spell the integer as
\* strconv.Itoa does.
OddNumbers == {<<"x">>, <<"0", "1">>, <<"+", "1">>}

\* Points of the GPU metric series whose gpu_id is a decimal integer or one
\* of the odd labels, and a node-scoped point.
LabelMetricPoints ==
  {[Metric |-> [hostname |-> A, gpu_id |-> g, gpu_name |-> <<"X">>], Value |-> GoodValue] :
     g \in {<<"0">>, <<"1">>} \cup OddNumbers}
  \cup {[Metric |-> [hostname |-> A], Value |-> OtherValue]}

\* Points of the process memory series whose gpu_id and pid are decimal
\* integers or odd labels.
LabelProcessPoints ==
  {[Metric |-> [hostname |-> A, gpu_id |-> g, pid |-> q, process_name |-> <<"p">>,
                user |-> <<"a">>, command |-> <<"c">>],
    Value |-> GoodValue] :
     g \in {<<"0">>, <<"x">>, <<"0", "1">>}, q \in {<<"7">>, <<"x">>, <<"0", "7">>}}

LabelPointsOf(c) ==
  IF c = "GetGPUMetrics" THEN LabelMetricPoints ELSE LabelProcessPoints

\* The response mappings of call c with at most MaxPoints of these points.
LabelInputs(c) ==
  {[n \in Names(c) |-> Response(PointsFor(pairs, n))] :
     pairs \in UNION {[1..k -> Names(c) \X LabelPointsOf(c)] : k \in 0..MaxPoints}}

InitLabels ==
  \E c \in {"GetGPUMetrics", "GetGPUProcesses"} :
    \E res \in LabelInputs(c) : AtCorrelator(c, res)

\* parseGPUMetrics and parseGPUProcesses on response mappings whose gpu_id
\* and pid labels need not be canonical integers.
SpecLabels == InitLabels /\ [][Correlate]_vars

\* Labels that contain the separator of the join key.
ColonHost == <<"a", ":", "b">>

ColonMetricPoints ==
  {[Metric |-> [hostname |-> h, gpu_id |-> g, gpu_name |-> <<"X">>], Value |-> GoodValue] :
     h \in {A, ColonHost}, g \in {<<"0">>, <<"b", ":", "0">>}}

ColonProcessPoints ==
  {[Metric |-> [hostname |-> A, gpu_id |-> g, pid |-> q, process_name |-> <<"p">>,
                user |-> <<"a">>, command |-> <<"c">>],
    Value |-> GoodValue] :
     g \in {<<"0">>, <<"0", ":", "1">>}, q \in {<<"7">>, <<"1", ":", "7">>}}

ColonPointsOf(c) ==
  IF c = "GetGPUMetrics" THEN ColonMetricPoints ELSE ColonProcessPoints

\* The response mappings of call c with at most MaxPoints of these points.
ColonInputs(c) ==
  {[n \in Names(c) |-> Response(PointsFor(pairs, n))] :
     pairs \in UNION {[1..k -> Names(c) \X ColonPointsOf(c)] : k \in 0..MaxPoints}}

InitColon ==
  \E c \in {"GetGPUMetrics", "GetGPUProcesses"} :
    \E res \in ColonInputs(c) : AtCorrelator(c, res)

\* parseGPUMetrics and parseGPUProcesses on response mappings whose labels
\* may contain ':'.
SpecColon == InitColon /\ [][Correlate]_vars

\* Points of the partial mappings: three GPUs with one name each, a value
\* that does not parse, and a node-scoped point.
PartialPoints ==
  {GPUPoint(A, <<"0">>, <<"X">>, <<"8">>),
   GPUPoint(A, <<"1">>, <<"Y">>, <<"2", ".", "5">>),
   GPUPoint(B, <<"0">>, <<"X">>, <<"8">>),
   GPUPoint(A, <<"0">>, <<"X">>, <<"x">>),
   NodePoint(A, <<"2", ".", "5">>)}

\* The domains a mapping is cut down to: every metric type that holds points
\* stays, and of those that hold none, none, one or all are absent.
PartialDomains(res) ==
  LET names == DOMAIN res
      full  == {n \in names : res[n].Result # <<>>}
  IN {names, full} \cup {names \ {n} : n \in names \ full}

\* The response mappings handed to parseGPUMetrics in which metric types
\* are absent or hold zero result points.
PartialInputs ==
  UNION {{[n \in D |-> res[n]] : D \in PartialDomains(res)} :
           res \in {[n \in Names("GetGPUMetrics") |-> Response(PointsFor(pairs, n))] :
                      pairs \in UNION {[1..k -> Names("GetGPUMetrics") \X PartialPoints] :
                                         k \in 0..MaxPoints}}}

\* A mapping with a zero-point response for every metric type absent from it.
Padded(res) ==
  [n \in Names("GetGPUMetrics") |-> IF n \in DOMAIN res THEN res[n] ELSE Response(<<>>)]

\* parseGPUMetrics is entered on a partial mapping.
InitPartial ==
  \E res \in PartialInputs :
    /\ call = "GetGPUMetrics"
    /\ results = res
    /\ backend = BackendOf("GetGPUMetrics", Padded(res))
    /\ ctxDone = FALSE
    /\ phase = "parse"
    /\ pc = [n \in Names("GetGPUMetrics") |-> "done"]
    /\ resp = Padded(res)
    /\ failures = 0
    /\ mu = NIL
    /\ errors = <<>>
    /\ i = Cardinality(Names("GetGPUMetrics"))
    /\ visited = {}
    /\ metricsMap = EmptyMap
    /\ nodeUtilization = EmptyMap
    /\ processMap = EmptyMap
    /\ ret = NoReturn
    /\ usage = NoUsage

\* parseGPUMetrics on the partial mappings.
SpecPartial == InitPartial /\ [][CorrelateMetrics]_vars

\* The GPUs of the second-pass mappings, as points of gpu_utilization.
SecondPassGPUs ==
  <<GPUPoint(A, <<"0">>, <<"X">>, <<"8">>),
    GPUPoint(A, <<"1">>, <<"X">>, <<"8">>),
    GPUPoint(B, <<"0">>, <<"X">>, <<"8">>)>>

\* Node-scoped points: values with a fraction, a negative one, an integer,
\* and one that does not parse.
SecondPassNodePoints ==
  {NodePoint(A, <<"2", ".", "5">>), NodePoint(A, <<"-", "1", ".", "5">>),
   NodePoint(B, <<"8">>), NodePoint(A, <<"x">>)}

\* Mappings with one to three GPU records and at most MaxPoints node-scoped
\* points.
SecondPassInputs ==
  {[n \in Names("GetGPUMetrics") |->
      IF n = "gpu_utilization"
      THEN Response(Pick(SecondPassGPUs, gpus))
      ELSE Response(PointsFor(pairs, n))] :
     gpus \in {<<1>>, <<3>>, <<1, 2>>, <<1, 3>>, <<3, 2, 1>>},
     pairs \in UNION {[1..k -> {"cpu_utilization", "memory_utilization"}
                                  \X SecondPassNodePoints] : k \in 0..MaxPoints}}

InitSecondPass ==
  \E res \in SecondPassInputs : AtCorrelator("GetGPUMetrics", res)

\* parseGPUMetrics on mappings with several GPUs per node and node-scoped
\* points.
SpecSecondPass == InitSecondPass /\ [][CorrelateMetrics]_vars

\* ------------------------------------------------------------------------
\* Properties
\* ------------------------------------------------------------------------

Records == ret.records.elems

\* The goroutines whose query failed: they are done without having written.
FailedQueries == {n \in Names(call) : pc[n] = "done" /\ n \notin DOMAIN results}

\* C1: fail-fast, no partial results.  When at least one constituent query
\* of GetGPUMetrics or GetGPUProcesses has failed, the correlator is never
\* entered, and a call that has returned has returned a nil record sequence
\* together with a non-nil error.
C1_FailFast ==
  FailedQueries # {} =>
    /\ phase \notin {"parse", "emit"}
    /\ ret.returned =>
         /\ ret.records.isNil
         /\ Records = <<>>
         /\ ret.err # NilError

\* A call of GetGPUMetrics has returned after one query failed and another
\* one succeeded and stored its response.
C1_Witness ==
  /\ call = "GetGPUMetrics"
  /\ ret.returned
  /\ FailedQueries # {}
  /\ DOMAIN results # {}

\* C6: GetGPUMetrics issues only expressions that the mock server of its
\* test serves, so against that server, with a live context and a working
\* transport, the call succeeds.
C6_TestBackendServesQueries ==
  (/\ call = "GetGPUMetrics"
   /\ backend = TestBackend
   /\ ~ctxDone
   /\ failures = 0
   /\ ret.returned)
  => ret.err = NilError

\* C3: a successful GetGPUMetrics / parseGPUMetrics never returns a nil
\* record sequence.
C3_MetricsNeverNil ==
  (call = "GetGPUMetrics" /\ ret.returned /\ ret.err = NilError)
  => ~ret.records.isNil

\* C4: when process correlation produces zero records, parseGPUProcesses
\* returns an empty, non-nil sequence and a nil error.
C4_EmptyProcessesNotNil ==
  (call = "GetGPUProcesses" /\ ret.returned /\ DOMAIN processMap = {})
  => /\ ~ret.records.isNil
     /\ Records = <<>>
     /\ ret.err = NilError

\* parseGPUProcesses has returned for a response whose points were all
\* skipped.
C4_Witness ==
  /\ call = "GetGPUProcesses"
  /\ ret.returned
  /\ DOMAIN processMap = {}
  /\ results["gpu_memory"].Result # <<>>

\* prev is not greater than curr in (NodeName, GPUIndex, PID), as the test
\* of the ordering states it.
TripleNotGreater(prev, curr) ==
  ~ \/ StrLess(curr.NodeName, prev.NodeName)
    \/ (prev.NodeName = curr.NodeName /\ prev.GPUIndex > curr.GPUIndex)
    \/ (prev.NodeName = curr.NodeName /\ prev.GPUIndex = curr.GPUIndex
          /\ prev.PID > curr.PID)

\* C2: the sequence returned by parseGPUProcesses is sorted ascending by
\* (NodeName, GPUIndex, PID): no adjacent pair is out of order.
C2_ProcessesSorted ==
  (call = "GetGPUProcesses" /\ ret.returned)
  => \A k \in 1..(Len(Records) - 1) : TripleNotGreater(Records[k], Records[k + 1])

\* Two processes of one node are returned, the one on the lower GPU with
\* the higher pid.
C2_Witness ==
  /\ call = "GetGPUProcesses"
  /\ ret.returned
  /\ Len(Records) = 2
  /\ Records[1].NodeName = Records[2].NodeName
  /\ Records[1].GPUIndex < Records[2].GPUIndex
  /\ Records[1].PID > Records[2].PID

\* The integer a sample value of the full joins truncates to.
ExpectedInt(v) ==
  CASE v = <<"8", "1", "9", "2">> -> 8192
    [] v = <<"2", "5", ".", "5">> -> 25

\* The number written by the gpu_id and pid labels of the explored points.
GpuNumber(g) == CASE g = <<"0">> -> 0 [] g = <<"1">> -> 1

PidNumber(q) == CASE q = <<"7">> -> 7 [] q = <<"1", "2">> -> 12

JoinPoint(n) == results[n].Result[1]

JoinValue(n) == ExpectedInt(JoinPoint(n).Value[2].str)

\* C5: full join.  With one parseable point per metric for one
\* (hostname, gpu_id), GetGPUMetrics returns exactly one record, whose
\* NodeName, GPUIndex and GPUName are those of the labels and whose seven
\* numeric fields are the truncated values of the matching metrics, in
\* whatever order the metric types are visited.
C5_FullJoin ==
  ret.returned =>
    /\ ret.err = NilError
    /\ Records =
         <<[NodeName |-> JoinPoint("gpu_mem_free").Metric.hostname,
            GPUIndex |-> GpuNumber(JoinPoint("gpu_mem_free").Metric.gpu_id),
            GPUName |-> JoinPoint("gpu_mem_free").Metric.gpu_name,
            GPUMemoryFree |-> JoinValue("gpu_mem_free"),
            GPUMemoryUsed |-> JoinValue("gpu_mem_used"),
            GPUMemoryTotal |-> JoinValue("gpu_mem_total"),
            GPUUtilization |-> JoinValue("gpu_utilization"),
            GPUTemperature |-> JoinValue("gpu_temperature"),
            CPUUtilization |-> JoinValue("cpu_utilization"),
            MemoryUtilization |-> JoinValue("memory_utilization")]>>

\* A full join has been returned in which the free memory and the CPU
\* utilization are 25.5 and every other value is 8192.
C5_Witness ==
  /\ ret.returned
  /\ Len(Records) = 1
  /\ Records[1].GPUMemoryFree = 25
  /\ Records[1].GPUMemoryUsed = 8192
  /\ Records[1].GPUMemoryTotal = 8192
  /\ Records[1].GPUUtilization = 8192
  /\ Records[1].GPUTemperature = 8192
  /\ Records[1].CPUUtilization = 25
  /\ Records[1].MemoryUtilization = 8192

HasHostname(pt) == Label(pt.Metric, "hostname") # <<>>

\* The correlator state after the points of one response.
AfterMetrics(m, points) ==
  LET acc == MetricsPoints([metricsMap |-> metricsMap,
                            nodeUtilization |-> nodeUtilization], m, points)
  IN <<acc.metricsMap, acc.nodeUtilization>>

\* Visiting metric type m leaves the correlator as the same response without
\* its points of empty or missing hostname would.
C7_Frame ==
  \A m \in DOMAIN results :
    (m \notin visited /\ visited' = visited \cup {m}) =>
      IF call = "GetGPUMetrics"
      THEN <<metricsMap', nodeUtilization'>>
             = AfterMetrics(m, SelectSeq(results[m].Result, HasHostname))
      ELSE processMap'
             = ProcessPoints(processMap, m, SelectSeq(results[m].Result, HasHostname))

C7_NoEmptyNodeName ==
  /\ \A k \in DOMAIN metricsMap : metricsMap[k].NodeName # <<>>
  /\ \A k \in DOMAIN processMap : processMap[k].NodeName # <<>>
  /\ \A h \in DOMAIN nodeUtilization : h # <<>>
  /\ \A k \in 1..Len(Records) : Records[k].NodeName # <<>>

\* C7: a point whose hostname label is empty or missing never contributes:
\* it creates or changes no GPU record, no node side-table entry and no
\* process record, and no record of either type has an empty NodeName.
C7_NoHostnameNoContribution == [][C7_Frame]_vars /\ []C7_NoEmptyNodeName

\* parseGPUMetrics has returned a record for a mapping that also holds a
\* point without hostname.
C7_Witness ==
  /\ call = "GetGPUMetrics"
  /\ ret.returned
  /\ Records # <<>>
  /\ \E m \in DOMAIN results : \E k \in 1..Len(results[m].Result) :
       ~HasHostname(results[m].Result[k])

ProcessInput == results["gpu_memory"].Result

ValueParses(pt) == pt.Value \in {GoodValue, OtherValue, NegValue}

HasIdentity(pt) ==
  /\ Label(pt.Metric, "hostname") # <<>>
  /\ Label(pt.Metric, "gpu_id") # <<>>
  /\ Label(pt.Metric, "pid") # <<>>

\* The record of a point of the explored set that has its three labels.
IsRecordOf(r, pt) ==
  /\ r.NodeName = pt.Metric.hostname
  /\ r.GPUIndex = GpuNumber(pt.Metric.gpu_id)
  /\ r.PID = PidNumber(pt.Metric.pid)

\* C8: two process points of one node with the same pid and different
\* gpu_id give two distinct Process Records, one per GPU index.
C8_SamePidTwoGPUs ==
  (call = "GetGPUProcesses" /\ ret.returned) =>
    \A a, b \in 1..Len(ProcessInput) :
      LET pa == ProcessInput[a]
          pb == ProcessInput[b]
      IN (/\ HasIdentity(pa) /\ HasIdentity(pb)
          /\ ValueParses(pa) /\ ValueParses(pb)
          /\ pa.Metric.hostname = pb.Metric.hostname
          /\ pa.Metric.pid = pb.Metric.pid
          /\ pa.Metric.gpu_id # pb.Metric.gpu_id)
         => \E k, l \in 1..Len(Records) :
              /\ k # l
              /\ IsRecordOf(Records[k], pa)
              /\ IsRecordOf(Records[l], pb)

\* Two records of one node and one pid have been returned.
C8_Witness ==
  /\ call = "GetGPUProcesses"
  /\ ret.returned
  /\ Len(Records) = 2
  /\ Records[1].NodeName = Records[2].NodeName
  /\ Records[1].PID = Records[2].PID
  /\ Records[1].GPUIndex # Records[2].GPUIndex

\* Visiting the process response leaves the map as the response without
\* its points that miss a label would.
C9_Frame ==
  \A m \in DOMAIN results :
    (call = "GetGPUProcesses" /\ m \notin visited /\ visited' = visited \cup {m}) =>
      processMap' = ProcessPoints(processMap, m, SelectSeq(results[m].Result, HasIdentity))

\* Every record stems from a point that has its three labels.
C9_NoPartialRecord ==
  call = "GetGPUProcesses" =>
    \A k \in 1..Len(Records) :
      \E a \in 1..Len(ProcessInput) :
        HasIdentity(ProcessInput[a]) /\ IsRecordOf(Records[k], ProcessInput[a])

\* C9: a process point missing hostname, gpu_id or pid produces no record,
\* and the records of the other points of the batch are exactly those the
\* batch produces without that point.
C9_MissingLabelDropped == [][C9_Frame]_vars /\ []C9_NoPartialRecord

\* One record has been returned for a batch of a point without pid and a
\* point with its three labels.
C9_Witness ==
  /\ call = "GetGPUProcesses"
  /\ ret.returned
  /\ Len(Records) = 1
  /\ Len(ProcessInput) = 2
  /\ \E a \in 1..2 : /\ Label(ProcessInput[a].Metric, "pid") = <<>>
                     /\ Label(ProcessInput[a].Metric, "hostname") # <<>>
                     /\ Label(ProcessInput[a].Metric, "gpu_id") # <<>>

\* All points of the response mapping, with their metric type and position.
AllPoints ==
  {<<m, k>> : m \in DOMAIN results, k \in 1..7} \cap
  UNION {{<<m, k>> : k \in 1..Len(results[m].Result)} : m \in DOMAIN results}

PointAt(x) == results[x[1]].Result[x[2]]

SameLabel(pa, pb, name) == Label(pa.Metric, name) = Label(pb.Metric, name)

\* x is a point with its identity labels and an unusable value, and no other
\* point of the mapping has its key.
BadOnlyMetricPoint(x) ==
  /\ ~IsNodeMetric(x[1])
  /\ Label(PointAt(x).Metric, "hostname") # <<>>
  /\ Label(PointAt(x).Metric, "gpu_id") # <<>>
  /\ PointAt(x).Value \in BadValues
  /\ \A y \in AllPoints \ {x} :
       ~(SameLabel(PointAt(x), PointAt(y), "hostname")
           /\ SameLabel(PointAt(x), PointAt(y), "gpu_id"))

BadOnlyProcessPoint(x) ==
  /\ HasIdentity(PointAt(x))
  /\ PointAt(x).Value \in BadValues
  /\ \A y \in AllPoints \ {x} :
       ~(SameLabel(PointAt(x), PointAt(y), "hostname")
           /\ SameLabel(PointAt(x), PointAt(y), "gpu_id")
           /\ SameLabel(PointAt(x), PointAt(y), "pid"))

\* C10: a point with valid identity labels whose value is no parseable
\* number, or whose value array has fewer than two elements, yields no
\* record when it is the only point for its key, and the call returns a nil
\* error; for GPU metric points and for process points.
C10_BadValueNoRecord ==
  ret.returned =>
    /\ ret.err = NilError
    /\ \A x \in AllPoints :
         IF call = "GetGPUMetrics"
         THEN BadOnlyMetricPoint(x) =>
                \A k \in 1..Len(Records) :
                  ~(/\ Records[k].NodeName = PointAt(x).Metric.hostname
                    /\ Records[k].GPUIndex = GpuNumber(PointAt(x).Metric.gpu_id))
         ELSE BadOnlyProcessPoint(x) =>
                \A k \in 1..Len(Records) : ~IsRecordOf(Records[k], PointAt(x))

\* parseGPUProcesses has returned the record of another key for a batch
\* that holds such a point.
C10_Witness ==
  /\ call = "GetGPUProcesses"
  /\ ret.returned
  /\ Len(Records) = 1
  /\ \E x \in AllPoints : BadOnlyProcessPoint(x)

\* The numeric field of a GPU record that metric type m sets.
MetricField(r, m) ==
  CASE m = "gpu_mem_free"    -> r.GPUMemoryFree
    [] m = "gpu_mem_used"    -> r.GPUMemoryUsed
    [] m = "gpu_mem_total"   -> r.GPUMemoryTotal
    [] m = "gpu_utilization" -> r.GPUUtilization
    [] m = "gpu_temperature" -> r.GPUTemperature

GPUMetricTypes == {m \in Names("GetGPUMetrics") : ~IsNodeMetric(m)}

\* pt is a point of metric type m for the key of record r with a value that
\* parses.
ParsedPointOf(r, m, pt) ==
  /\ Label(pt.Metric, "hostname") = r.NodeName
  /\ Label(pt.Metric, "gpu_id") # <<>>
  /\ GpuNumber(Label(pt.Metric, "gpu_id")) = r.GPUIndex
  /\ ValueParses(pt)

\* Every numeric field of a returned GPU record for which the mapping holds
\* no parseable point is zero.
UnsetFieldsZero ==
  \A k \in 1..Len(Records) : \A m \in GPUMetricTypes \cap DOMAIN results :
    (\A a \in 1..Len(results[m].Result) :
        ~ParsedPointOf(Records[k], m, results[m].Result[a]))
    => MetricField(Records[k], m) = 0

\* C11: malformed points never fail a call.  A call that has returned has
\* returned an error exactly when one of its queries failed, whatever labels
\* are missing and whatever values do not parse in the responses, and a
\* numeric field of a GPU record whose only points have unusable values is
\* zero.
C11_MalformedNeverFails ==
  ret.returned =>
    /\ (ret.err # NilError) <=> (FailedQueries # {})
    /\ (call = "GetGPUMetrics" /\ ret.err = NilError) => UnsetFieldsZero

\* GetGPUMetrics has returned a record against the malformed backend: the
\* record of GPU 0 has its free memory, and its total memory and temperature,
\* whose points have unusable values, are zero.
C11_Witness ==
  /\ call = "GetGPUMetrics"
  /\ backend = MalformedBackend
  /\ ret.returned
  /\ ret.err = NilError
  /\ \E k \in 1..Len(Records) :
       /\ Records[k].GPUIndex = 0
       /\ Records[k].GPUMemoryFree = 8
       /\ Records[k].GPUMemoryTotal = 0
       /\ Records[k].GPUTemperature = 0

\* The metric types whose response holds points.
TypesWithPoints == {m \in DOMAIN results : results[m].Result # <<>>}

\* A run of the first pass of parseGPUMetrics that visits the metric types
\* of res in the given order.
RECURSIVE MetricsInOrder(_, _, _)
MetricsInOrder(acc, res, order) ==
  IF order = <<>> THEN acc
  ELSE MetricsInOrder(MetricsResponse(acc, Head(order), res[Head(order)]),
                      res, Tail(order))

\* The records by key that a run of parseGPUMetrics in the given order ends
\* with.
RunMetrics(res, order) ==
  LET acc == MetricsInOrder([metricsMap |-> EmptyMap, nodeUtilization |-> EmptyMap],
                            res, order)
  IN [k \in DOMAIN acc.metricsMap |->
        ApplyNodeUtil(acc.metricsMap[k], acc.nodeUtilization)]

\* C12: idempotence.  The records by key that parseGPUMetrics has built when
\* it converts them to a slice are those that every other run on the same
\* response mapping builds, in whatever order that run visits the metric
\* types: the same keys, and for every key the same field values, GPUName
\* included.
C12_Idempotent ==
  (call = "GetGPUMetrics" /\ phase \in {"emit", "returned"}) =>
    \A order \in Orders(TypesWithPoints) : RunMetrics(results, order) = metricsMap

\* strconv.Itoa: the decimal rendering of an integer.
DigitChar(d) ==
  CASE d = 0 -> "0" [] d = 1 -> "1" [] d = 2 -> "2" [] d = 3 -> "3" [] d = 4 -> "4"
    [] d = 5 -> "5" [] d = 6 -> "6" [] d = 7 -> "7" [] d = 8 -> "8" [] d = 9 -> "9"

RECURSIVE NatString(_)
NatString(n) ==
  IF n < 10 THEN <<DigitChar(n)>> ELSE NatString(n \div 10) \o <<DigitChar(n % 10)>>

Itoa(n) == IF n < 0 THEN <<"-">> \o NatString(-n) ELSE NatString(n)

\* C13: every GPU record that parseGPUMetrics emits has a non-empty
\* NodeName, and its GPUIndex rendered as a decimal string is the gpu_id
\* label of the points that produced it, that is, the record stored under
\* the key hostname:gpu_id is keyed by its own NodeName and GPUIndex.
C13_IndexRoundTrips ==
  (call = "GetGPUMetrics" /\ ret.returned) =>
    /\ \A k \in DOMAIN metricsMap :
         /\ metricsMap[k].NodeName # <<>>
         /\ k = MetricsKey(metricsMap[k].NodeName, Itoa(metricsMap[k].GPUIndex))
    /\ \A a \in 1..Len(Records) : \E k \in DOMAIN metricsMap : Records[a] = metricsMap[k]

\* C14: (NodeName, GPUIndex) is a unique key of the output of
\* parseGPUMetrics: no two records of one returned sequence have the same
\* NodeName and the same GPUIndex.
C14_UniqueKey ==
  (call = "GetGPUMetrics" /\ ret.returned) =>
    \A a, b \in 1..Len(Records) :
      (Records[a].NodeName = Records[b].NodeName
         /\ Records[a].GPUIndex = Records[b].GPUIndex) => a = b

\* A process point that must be skipped: one of its three labels is empty,
\* or its gpu_id or pid is no base-10 integer.
UnusableIdentity(pt) ==
  \/ ~HasIdentity(pt)
  \/ Atoi(Label(pt.Metric, "gpu_id")).err # NIL
  \/ Atoi(Label(pt.Metric, "pid")).err # NIL

\* C15: a process point whose hostname, gpu_id or pid label is empty or
\* unparseable creates no record: when parseGPUProcesses has returned, no
\* record is stored under the key of such a point.
C15_UnparseableSkipped ==
  (call = "GetGPUProcesses" /\ ret.returned) =>
    \A a \in 1..Len(ProcessInput) :
      UnusableIdentity(ProcessInput[a]) =>
        ProcessKey(Label(ProcessInput[a].Metric, "hostname"),
                   Label(ProcessInput[a].Metric, "gpu_id"),
                   Label(ProcessInput[a].Metric, "pid")) \notin DOMAIN processMap

\* C16: when the caller's context is already cancelled at the call, no query
\* is attempted: no query goroutine calls Query, for any metric.  (Under Spec
\* the context is cancelled before the call or never.)
C16_NoQueryWhenCancelled ==
  ctxDone => \A n \in Names(call) : pc[n] = "idle"

\* The error of a query that the cancellation aborted is in the channel.
CancellationSent == \E k \in 1..Len(errors) : errors[k].cause = "context"

\* A query that is in flight under a done context leaves Query only with the
\* error of the context, which its goroutine sends.
C17_AbortStep ==
  \A n \in Names(call) :
    (ctxDone /\ pc[n] = "query" /\ pc'[n] # "query") =>
      /\ pc'[n] = "done"
      /\ errors' = Append(errors, QueryError(n, "context"))

\* The call returns while the error of an aborted query waits in the channel.
C17_ReturnsUnderCancel ==
  ~ret.returned /\ ret'.returned /\ ctxDone /\ CancellationSent

\* C17 as claimed: when the context is cancelled or times out while a query
\* is in flight, every in-flight query aborts with an error and the call
\* returns an error carrying the cancellation, never a record sequence.
C17_ReturnsCancellation ==
  [][/\ C17_AbortStep
     /\ C17_ReturnsUnderCancel =>
          (ret'.err = QueryError("", "context") /\ ret'.records.isNil)]_vars

\* While a query is in flight or aborted under a done context, a call that
\* has returned has returned an error and no records.
C17_NoRecords ==
  (ctxDone /\ (CancellationSent \/ \E n \in Names(call) : pc[n] = "query")) =>
    (ret.returned => (ret.err # NilError /\ ret.records.isNil))

\* C17 as amended: every in-flight query aborts with the error of the
\* context, and the call returns an error and never a record sequence; the
\* error it returns is the first one in the channel, which is the
\* cancellation unless the failure of another query was sent before it.
C17_CancelReturnsError ==
  /\ [][/\ C17_AbortStep
        /\ C17_ReturnsUnderCancel =>
             /\ ret'.err = Head(errors)
             /\ ret'.err # NilError
             /\ ret'.records.isNil
             /\ (\A k \in 1..Len(errors) : errors[k].cause \in {"nil", "context"})
                  => ret'.err = QueryError("", "context")]_vars
  /\ []C17_NoRecords

\* GetGPUMetrics has returned the error of the cancellation after at least
\* one of its queries had succeeded and stored its response: the context was
\* cancelled while other queries were in flight.
C17_Witness ==
  /\ call = "GetGPUMetrics"
  /\ ctxDone
  /\ ret.returned
  /\ ret.err = QueryError("", "context")
  /\ DOMAIN results # {}

\* The collector is in its loop and the error of a failed query waits in
\* the channel.
ErrorWaits ==
  phase = "collect" /\ \E k \in 1..Len(errors) : errors[k] # NilError

\* C18: as soon as the collector receives the first error outcome it returns
\* that error, and the return does not depend on any other query goroutine
\* ever completing: once an error waits in the channel the call returns,
\* even if no goroutine takes another step.
C18_ReturnsOnFirstError ==
  /\ [][(phase = "collect" /\ errors # <<>> /\ Head(errors) # NilError
           /\ errors' = Tail(errors))
          => (ret'.returned /\ ret'.err = Head(errors) /\ ret'.records.isNil)]_vars
  /\ (ErrorWaits ~> ret.returned)

\* GetGPUMetrics has returned an error while another query is still in
\* flight and a third goroutine waits for the mutex.
C18_Witness ==
  /\ call = "GetGPUMetrics"
  /\ ret.returned
  /\ ret.err # NilError
  /\ \E n \in Names(call) : pc[n] = "query"
  /\ \E n \in Names(call) : pc[n] = "lock"

\* The per-GPU points with a hostname, a gpu_id and a value that parses.
ContributingPoints ==
  {x \in AllPoints :
     /\ ~IsNodeMetric(x[1])
     /\ Label(PointAt(x).Metric, "hostname") # <<>>
     /\ Label(PointAt(x).Metric, "gpu_id") # <<>>
     /\ ValueParses(PointAt(x))}

HoldsNoPoints(n) == n \notin TypesWithPoints

\* The metric types of a padded mapping that hold no points, in the order
\* in which GetGPUMetrics lists them.
EmptyTypes ==
  SelectSeq(<<"gpu_mem_free", "gpu_mem_used", "gpu_mem_total", "gpu_utilization",
              "gpu_temperature", "cpu_utilization", "memory_utilization">>,
            HoldsNoPoints)

\* C19: partial-data tolerance.  A (hostname, gpu_id) key with a parseable
\* point in at least one per-GPU metric has a record in the returned
\* sequence even when other metric types are absent from the mapping or hold
\* zero result points; the fields of those metric types are 0; the error is
\* nil; and the records are those of a run on the mapping in which every
\* absent metric type has a response of zero points.
C19_PartialData ==
  (call = "GetGPUMetrics" /\ ret.returned) =>
    /\ ret.err = NilError
    /\ \A x \in ContributingPoints :
         \E k \in 1..Len(Records) :
           /\ Records[k].NodeName = PointAt(x).Metric.hostname
           /\ Records[k].GPUIndex = GpuNumber(PointAt(x).Metric.gpu_id)
    /\ \A k \in 1..Len(Records) : \A m \in GPUMetricTypes :
         (m \notin DOMAIN results \/ results[m].Result = <<>>)
         => MetricField(Records[k], m) = 0
    /\ \E order \in Orders(TypesWithPoints) :
         /\ metricsMap = RunMetrics(Padded(results), EmptyTypes \o order)
         /\ metricsMap = RunMetrics(Padded(results), order \o EmptyTypes)

\* parseGPUMetrics has returned a record for a mapping from which one metric
\* type is absent and in which another holds zero result points.
C19_Witness ==
  /\ call = "GetGPUMetrics"
  /\ ret.returned
  /\ Records # <<>>
  /\ "gpu_temperature" \notin DOMAIN results
  /\ "gpu_mem_free" \in DOMAIN results
  /\ results["gpu_mem_free"].Result = <<>>

\* The integer that the value string of a node-scoped point truncates to.
NodeInt(v) ==
  CASE v = <<"2", ".", "5">> -> 2
    [] v = <<"-", "1", ".", "5">> -> -1
    [] v = <<"8">> -> 8

\* The positions of the points of metric type m for node h whose value parses.
NodeSamples(m, h) ==
  {k \in 1..Len(results[m].Result) :
     /\ Label(results[m].Result[k].Metric, "hostname") = h
     /\ ParseFloat(results[m].Result[k].Value[2].str).err = NIL}

\* The utilization the second pass gives the records of node h for metric
\* type m: the truncated value of the last such point, 0 without one.
ExpectedUtil(m, h) ==
  IF NodeSamples(m, h) = {} THEN 0
  ELSE NodeInt(results[m].Result[CHOOSE k \in NodeSamples(m, h) :
                                   \A j \in NodeSamples(m, h) : j <= k].Value[2].str)

\* C20: second pass.  In the returned sequence every GPU record of a node
\* with an entry in the node side table has CPUUtilization and
\* MemoryUtilization equal to the integer truncation of the node's values,
\* all records of one node have the same two values, and the records of a
\* node without node-scoped data have 0 in both.
C20_SecondPass ==
  (call = "GetGPUMetrics" /\ ret.returned) =>
    /\ \A k \in 1..Len(Records) :
         /\ Records[k].CPUUtilization
              = ExpectedUtil("cpu_utilization", Records[k].NodeName)
         /\ Records[k].MemoryUtilization
              = ExpectedUtil("memory_utilization", Records[k].NodeName)
         /\ Records[k].NodeName \notin DOMAIN nodeUtilization =>
              (Records[k].CPUUtilization = 0 /\ Records[k].MemoryUtilization = 0)
         /\ Records[k].NodeName \in DOMAIN nodeUtilization =>
              (NodeSamples("cpu_utilization", Records[k].NodeName)
                 \cup NodeSamples("memory_utilization", Records[k].NodeName)) # {}
    /\ \A k, l \in 1..Len(Records) :
         Records[k].NodeName = Records[l].NodeName =>
           /\ Records[k].CPUUtilization = Records[l].CPUUtilization
           /\ Records[k].MemoryUtilization = Records[l].MemoryUtilization

\* Three records have been returned: the two GPUs of node a have CPU
\* utilization 2 and memory utilization -1, truncated from 2.5 and -1.5, and
\* the GPU of node b, which has no node-scoped data, has 0 in both.
C20_Witness ==
  /\ call = "GetGPUMetrics"
  /\ ret.returned
  /\ Len(Records) = 3
  /\ \A k \in 1..3 :
       IF Records[k].NodeName = A
       THEN Records[k].CPUUtilization = 2 /\ Records[k].MemoryUtilization = -1
       ELSE Records[k].CPUUtilization = 0 /\ Records[k].MemoryUtilization = 0

\* The positions of the process points that carry the key of record r.
PointsOfRecord(r) ==
  {a \in 1..Len(ProcessInput) :
     HasIdentity(ProcessInput[a]) /\ IsRecordOf(r, ProcessInput[a])}

\* Those of them whose value parses.
ParsedPointsOfRecord(r) ==
  {a \in PointsOfRecord(r) : ValueParses(ProcessInput[a])}

MinOf(S) == CHOOSE a \in S : \A b \in S : a <= b

MaxOf(S) == CHOOSE a \in S : \A b \in S : b <= a

\* The descriptive fields of record r are the labels of point pt.
DescribedBy(r, pt) ==
  /\ r.ProcessName = Label(pt.Metric, "process_name")
  /\ r.User = Label(pt.Metric, "user")
  /\ r.Command = Label(pt.Metric, "command")

\* C21 as claimed: ProcessName, User and Command of a Process Record are
\* those of the first point of the input that carries the record's
\* (hostname, gpu_id, pid) key.
C21_FirstPointDescribes ==
  (call = "GetGPUProcesses" /\ ret.returned) =>
    \A k \in 1..Len(Records) :
      /\ PointsOfRecord(Records[k]) # {}
      /\ DescribedBy(Records[k], ProcessInput[MinOf(PointsOfRecord(Records[k]))])

\* C21 as amended: ProcessName, User and Command of a Process Record are
\* those of the first point with the record's key whose value parsed; no
\* later point with the key changes them.
C21_FirstStoredPointDescribes ==
  (call = "GetGPUProcesses" /\ ret.returned) =>
    \A k \in 1..Len(Records) :
      /\ ParsedPointsOfRecord(Records[k]) # {}
      /\ DescribedBy(Records[k], ProcessInput[MinOf(ParsedPointsOfRecord(Records[k]))])

\* One record has been returned for two points of one key that both parse
\* and differ in their process name.
C21_Witness ==
  /\ call = "GetGPUProcesses"
  /\ ret.returned
  /\ Len(Records) = 1
  /\ ParsedPointsOfRecord(Records[1]) = {1, 2}
  /\ Label(ProcessInput[1].Metric, "process_name")
       # Label(ProcessInput[2].Metric, "process_name")

\* C22 as claimed: a process point with its three labels that is the first
\* for its key creates the record of the key even when its value does not
\* parse, so every key of such a point has a record in the returned
\* sequence (with GPUMemory 0 when no point of the key parsed).
C22_RecordDespiteBadValue ==
  (call = "GetGPUProcesses" /\ ret.returned) =>
    \A a \in 1..Len(ProcessInput) :
      HasIdentity(ProcessInput[a]) =>
        \E k \in 1..Len(Records) :
          /\ IsRecordOf(Records[k], ProcessInput[a])
          /\ (ParsedPointsOfRecord(Records[k]) = {} => Records[k].GPUMemory = 0)

\* C22 as amended: a process point whose value does not parse creates no
\* record, also when it is the first of its key: the key has a record in the
\* returned sequence exactly when one of its points parsed.
C22_NoRecordWithoutValue ==
  (call = "GetGPUProcesses" /\ ret.returned) =>
    /\ \A k \in 1..Len(Records) : ParsedPointsOfRecord(Records[k]) # {}
    /\ \A a \in 1..Len(ProcessInput) :
         HasIdentity(ProcessInput[a]) =>
           ((\E k \in 1..Len(Records) : IsRecordOf(Records[k], ProcessInput[a]))
            <=> (\E b \in 1..Len(ProcessInput) :
                   /\ HasIdentity(ProcessInput[b])
                   /\ ValueParses(ProcessInput[b])
                   /\ SameLabel(ProcessInput[a], ProcessInput[b], "hostname")
                   /\ SameLabel(ProcessInput[a], ProcessInput[b], "gpu_id")
                   /\ SameLabel(ProcessInput[a], ProcessInput[b], "pid")))

\* parseGPUProcesses has returned no record for a response whose only point
\* has its three labels and a value that does not parse.
C22_Witness ==
  /\ call = "GetGPUProcesses"
  /\ ret.returned
  /\ Records = <<>>
  /\ Len(ProcessInput) = 1
  /\ HasIdentity(ProcessInput[1])
  /\ ProcessInput[1].Value \in BadValues

\* The integer that the value of a process point truncates to.
MemoryInt(pt) ==
  CASE pt.Value = GoodValue -> 8
    [] pt.Value = OtherValue -> 2

\* C23: process deduplication.  The points of one (hostname, gpu_id, pid)
\* key give at most one Process Record, and its GPUMemory is the integer
\* truncation of the value of the last point of the key whose value parsed.
C23_Deduplicated ==
  (call = "GetGPUProcesses" /\ ret.returned) =>
    /\ \A k, l \in 1..Len(Records) :
         (/\ Records[k].NodeName = Records[l].NodeName
          /\ Records[k].GPUIndex = Records[l].GPUIndex
          /\ Records[k].PID = Records[l].PID) => k = l
    /\ \A k \in 1..Len(Records) :
         /\ ParsedPointsOfRecord(Records[k]) # {}
         /\ Records[k].GPUMemory
              = MemoryInt(ProcessInput[MaxOf(ParsedPointsOfRecord(Records[k]))])

\* One record with GPUMemory 2 has been returned for two points of one key
\* with the values 8 and 2.5, in this order.
C23_Witness ==
  /\ call = "GetGPUProcesses"
  /\ ret.returned
  /\ Len(Records) = 1
  /\ Records[1].GPUMemory = 2
  /\ ParsedPointsOfRecord(Records[1]) = {1, 2}
  /\ ProcessInput[1].Value = GoodValue
  /\ ProcessInput[2].Value = OtherValue

\* The goroutines between mu.Lock() and mu.Unlock().
InCriticalSection == {n \in Names(call) : pc[n] = "locked"}

\* A step that changes results is the write of the one goroutine that holds
\* the mutex, to the entry of its own metric name.
C24_WriteStep ==
  results' # results =>
    \E n \in InCriticalSection :
      /\ mu = n
      /\ results' = MapPut(results, n, resp[n])
      /\ \A m \in DOMAIN results \ {n} : results'[m] = results[m]

\* C24: writes to the shared results mapping are mutually exclusive: in every
\* interleaving at most one query goroutine is inside the write, it is the
\* holder of the mutex, and it writes only the entry of its own metric name.
C24_MutualExclusion ==
  /\ [](/\ Cardinality(InCriticalSection) <= 1
        /\ \A n \in Names(call) : pc[n] = "locked" <=> mu = n)
  /\ [][C24_WriteStep]_vars

\* One goroutine of GetGPUMetrics holds the mutex while two others wait for
\* it and one entry is already written.
C24_Witness ==
  /\ call = "GetGPUMetrics"
  /\ Cardinality(InCriticalSection) = 1
  /\ Cardinality({n \in Names(call) : pc[n] = "lock"}) >= 2
  /\ DOMAIN results # {}

\* C25: on the success path the correlator runs only after exactly N nil
\* outcomes were received: from its start on, results holds a non-nil
\* response for every one of the N metric names, the channel is empty, and
\* every query goroutine has terminated and released the mutex, so none
\* reads or writes the mapping any more.
C25_CorrelatorAfterAll ==
  (phase \in {"parse", "emit"} \/ (ret.returned /\ ret.err = NilError)) =>
    /\ i = N
    /\ errors = <<>>
    /\ DOMAIN results = Names(call)
    /\ \A n \in Names(call) : ~results[n].isNil /\ results[n] = resp[n]
    /\ \A n \in Names(call) : pc[n] = "done"
    /\ mu = NIL

\* The correlator of GetGPUMetrics is about to start on seven responses.
C25_Witness ==
  /\ call = "GetGPUMetrics"
  /\ phase = "parse"
  /\ visited = {}
  /\ Cardinality(DOMAIN results) = 7

\* The outcomes the collector has received.
Received == i + (IF ret.returned /\ ret.err # NilError THEN 1 ELSE 0)

\* C26: each query goroutine sends exactly one outcome, the channel never
\* holds more than N outcomes, and no goroutine ever blocks on its send: at
\* every moment at which a goroutine has still to send, also after the call
\* has returned on an earlier error, the channel has room.
C26_OneOutcomeEach ==
  /\ Len(errors) <= N
  /\ phase \notin {"parse", "emit"} /\ ~(ret.returned /\ ret.err = NilError) =>
       Len(errors) + Received = Cardinality({n \in Names(call) : pc[n] = "done"})
  /\ (\E n \in Names(call) : pc[n] \in {"query", "lock", "locked"}) => CanSend

\* GetGPUMetrics has returned on the first error and the outcomes of the six
\* goroutines that finished afterwards wait in the channel.
C26_Witness ==
  /\ call = "GetGPUMetrics"
  /\ ret.returned
  /\ ret.err # NilError
  /\ Len(errors) = 6
  /\ \A n \in Names(call) : pc[n] = "done"

\* The call has returned and every query goroutine has terminated.
Terminated == ret.returned /\ \A n \in Names(call) : pc[n] = "done"

\* C27: termination.  When every call of Query returns and scheduling is
\* fair, GetGPUMetrics and GetGPUProcesses return and every spawned query
\* goroutine terminates; the mutex, the channel and the collector loop never
\* deadlock: a state in which no step can be taken is a terminated one.
C27_Terminates ==
  /\ <>[]Terminated
  /\ [](Terminated \/ ENABLED Next)

\* GetGPUMetrics has returned its records and all seven goroutines have
\* terminated.
C27_Witness ==
  /\ call = "GetGPUMetrics"
  /\ Terminated
  /\ ret.err = NilError
  /\ Records # <<>>

\* Visiting a node-scoped metric type leaves the GPU records as they are.
C28_NodeStep ==
  \A m \in DOMAIN results :
    (call = "GetGPUMetrics" /\ m \in {"cpu_utilization", "memory_utilization"}
       /\ m \notin visited /\ visited' = visited \cup {m})
    => metricsMap' = metricsMap

\* Every record of the returned sequence has the key of a parseable point of
\* a per-GPU metric.
C28_RecordsFromGPUMetrics ==
  (call = "GetGPUMetrics" /\ ret.returned) =>
    \A k \in 1..Len(Records) :
      \E x \in ContributingPoints :
        /\ Records[k].NodeName = PointAt(x).Metric.hostname
        /\ Records[k].GPUIndex = GpuNumber(PointAt(x).Metric.gpu_id)

\* C28: a point of cpu_utilization or memory_utilization only updates the
\* node side table: it creates no GPU record and sets no per-GPU field, also
\* when it carries a gpu_id label, so a node with only node-scoped points
\* has no record.
C28_NodeScopedOnlySideTable ==
  [][C28_NodeStep]_vars /\ []C28_RecordsFromGPUMetrics

\* parseGPUMetrics has returned no record for a mapping whose only points
\* are points of memory_utilization that carry a gpu_id label and fill the
\* side table.
C28_Witness ==
  /\ call = "GetGPUMetrics"
  /\ ret.returned
  /\ Records = <<>>
  /\ DOMAIN nodeUtilization # {}
  /\ TypesWithPoints = {"memory_utilization"}
  /\ Label(results["memory_utilization"].Result[1].Metric, "gpu_id") # <<>>

\* The (hostname, gpu_id) pairs of the per-GPU points that reach the map.
IdentityPairs ==
  {<<PointAt(x).Metric.hostname, PointAt(x).Metric.gpu_id>> :
     x \in ContributingPoints}

\* The (hostname, gpu_id, pid) triples of the process points that are stored.
IdentityTriples ==
  {<<ProcessInput[k].Metric.hostname, ProcessInput[k].Metric.gpu_id,
     ProcessInput[k].Metric.pid>> :
     k \in {j \in 1..Len(ProcessInput) :
              HasIdentity(ProcessInput[j]) /\ ValueParses(ProcessInput[j])}}

\* C29: the join key is injective on the identity labels, also for labels
\* that contain ':': at the return the map of GPU records has one entry for
\* every (hostname, gpu_id) pair of the contributing points, and the map of
\* Process Records one entry for every (hostname, gpu_id, pid) triple.
C29_KeyInjective ==
  /\ (call = "GetGPUMetrics" /\ ret.returned) =>
       Cardinality(DOMAIN metricsMap) = Cardinality(IdentityPairs)
  /\ (call = "GetGPUProcesses" /\ ret.returned) =>
       Cardinality(DOMAIN processMap) = Cardinality(IdentityTriples)

\* ------------------------------------------------------------------------
\* The table's highlighting of high usage (frontend/src/utils/usage.ts)
\* ------------------------------------------------------------------------

\* The largest number that a cell holds.
MaxUsage == 100

columnsWithPercent ==
  {"gpu_utilization", "cpu_utilization", "memory_utilization", "cpu", "memory"}

columnsWithTmp == {"temperature"}

\* The column ids: those of the two lists and columns that are in neither.
ColumnIds ==
  columnsWithPercent \cup columnsWithTmp \cup {"node_name", "gpu_index", "gpu_memory"}

\* A cell value of type string | number.
NumberValue(n) == [type |-> "number", num |-> n]

TextValue(t) == [type |-> "string", str |-> t]

CellValues ==
  {NumberValue(n) : n \in 0..MaxUsage} \cup {TextValue(t) : t \in {<<"a">>, <<"9", "0">>}}

isHighUsage(id, value) ==
  IF value.type = "string" THEN FALSE
  ELSE IF id \in columnsWithPercent THEN value.num > 80
  ELSE IF id \in columnsWithTmp THEN value.num > 70
  ELSE FALSE

\* The table renders one cell: isHighUsage(col.id, row[col.id]).
HighlightCell ==
  /\ \E id \in ColumnIds, value \in CellValues :
       usage' = [called |-> TRUE, id |-> id, value |-> value,
                 high |-> isHighUsage(id, value)]
  /\ UNCHANGED <<call, backend, ctxDone, phase, i, ret>>
  /\ UNCHANGED taskVars
  /\ UNCHANGED parseVars

\* The table before a cell is rendered; the backend's call is at its start.
InitUsage ==
  /\ Init
  /\ call = "GetGPUProcesses"
  /\ backend = CHOOSE b \in Backends : TRUE
  /\ ctxDone = FALSE

\* isHighUsage on every column id and cell value of the bounded sets.
SpecUsage == InitUsage /\ [][HighlightCell]_vars

\* C30: isHighUsage answers true for a percentage column exactly when the
\* number is 80 or more and for the temperature column exactly when the
\* number is 70 or more; it answers false for every string value and for
\* every other column.
C30_HighUsage ==
  usage.called =>
    usage.high =
      (/\ usage.value.type = "number"
       /\ \/ usage.id \in {"gpu_utilization", "cpu_utilization",
                           "memory_utilization", "cpu", "memory"}
             /\ usage.value.num >= 80
          \/ usage.id = "temperature" /\ usage.value.num >= 70)

====
